---- MODULE Spec2Model ----
(***************************************************************************)
(* Model of pkg/mount/libmount/mount_table_diff.go: the mount-table diff   *)
(* engine GenerateDiff, the diff list it builds, and the accessors of the  *)
(* diff list (GetOldFs, GetNewFs, ListSources).                            *)
(*                                                                         *)
(* Filesystem entries live on a heap and are referred to by address, as    *)
(* the Go code refers to them by *Filesystem: a mount table is a sequence  *)
(* of addresses, a diff entry holds two addresses (or Nil).                *)
(***************************************************************************)
EXTENDS Integers, Sequences, FiniteSets, TLC

\* ------------------------------------------------------------------ bounds
\* Longest mount table handed to GenerateDiff.
MaxTabLen == 2
\* Longest mount table in the runs where the caller goes on to mutate entries.
MaxCallerTabLen == 2
\* How many writes the caller makes through pointers it holds.
MaxMutations == 1

\* ------------------------------------------------- MountAction (lines 21-28)
MountActionMount == 0
MountActionUmount == 1
MountActionMove == 2
MountActionRemount == 3

\* ----------------------------------------------------- Filesystem (values)
\* A string that is ordered (Source) is a sequence of character codes, so that
\* sort.Strings has an order to sort by; the other strings are only compared
\* for equality.
Filesystem(id, source, target, vfsOptions, fsOptions) ==
  [id |-> id, source |-> source, target |-> target,
   vfsOptions |-> vfsOptions, fsOptions |-> fsOptions]

\* The values the mount tables of a run are built from: one mount, the same
\* mount with either option string changed, the same mount moved, and mounts
\* that share only its id, only its source, or only its target.
Filesystems ==
  { Filesystem(5, <<97>>, "/mnt/a", "rw,relatime", "rw"),
    Filesystem(5, <<97>>, "/mnt/a", "ro,relatime", "rw"),
    Filesystem(5, <<97>>, "/mnt/a", "rw,relatime", "rw,discard"),
    Filesystem(5, <<97>>, "/mnt/b", "rw,relatime", "rw"),
    Filesystem(7, <<97>>, "/mnt/b", "rw,relatime", "rw"),
    Filesystem(7, <<98>>, "/mnt/a", "rw,relatime", "rw"),
    Filesystem(5, <<98>>, "/mnt/b", "rw,relatime", "rw"),
    Filesystem(7, <<97, 98>>, "/mnt/b", "ro,relatime", "rw") }

\* The values of the runs in which the caller writes through its pointers.
CallerFilesystems ==
  { Filesystem(5, <<97>>, "/mnt/a", "rw,relatime", "rw"),
    Filesystem(5, <<97>>, "/mnt/b", "rw,relatime", "rw"),
    Filesystem(7, <<98>>, "/mnt/a", "ro,relatime", "rw") }

GetID(fs) == fs.id
GetSource(fs) == fs.source
GetTarget(fs) == fs.target
GetVFSOptions(fs) == fs.vfsOptions
GetFSOptions(fs) == fs.fsOptions

\* ------------------------------------------------------------ heap, tables
Nil == 0
NilTab == [nil |-> TRUE]
MountTab(es) == [entries |-> es]

\* heap        : address -> Filesystem, the entries the pointers refer to
\* argOld,argNew: the tables the caller holds and passes, NilTab or a MountTab
\* oldTab,newTab: the parameters of GenerateDiff, which it reassigns
\* diffTable   : the MountTabDiff under construction, then returned
\* pc, i       : where GenerateDiff is, and the index of its running loop
\* sourcesList : what ListSources returned
\* ret         : the pointer the last GetOldFs/GetNewFs call returned
\* called      : the last accessor call of the caller, <<name, index>>
\* wrote       : what the caller's last write went through
\* muts        : how many writes the caller has made
VARIABLES heap, argOld, argNew, oldTab, newTab, diffTable, pc, i,
          sourcesList, ret, called, wrote, muts
vars == <<heap, argOld, argNew, oldTab, newTab, diffTable, pc, i,
          sourcesList, ret, called, wrote, muts>>
callerVars == <<ret, called, wrote, muts>>

\* MountTab.Size: the number of entries.
Size(tab) == Len(tab.entries)

\* SourceFilter / TargetFilter: a predicate on one entry.
SourceFilter(value) == [field |-> "source", value |-> value]
TargetFilter(value) == [field |-> "target", value |-> value]
Matches(filter, fs) ==
  IF filter.field = "source" THEN GetSource(fs) = filter.value
  ELSE GetTarget(fs) = filter.value

\* MountTab.Find: the first entry that satisfies every filter, or Nil.
Find(h, tab, filters) ==
  LET hits == { k \in 1..Len(tab.entries) :
                  \A f \in 1..Len(filters) :
                     Matches(filters[f], h[tab.entries[k]]) }
  IN IF hits = {} THEN Nil
     ELSE tab.entries[CHOOSE k \in hits : \A m \in hits : k <= m]

\* ------------------------------------------------------------ MountTabDiff
NewMountTabDiff == << >>

AddDiffEntry(md, oldFs, newFs, action) ==
  Append(md, [oldFs |-> oldFs, newFs |-> newFs, action |-> action])

\* getMountEntry without the comparison of the IDs.
getMountEntryAnyID(h, md, source, id) ==
  LET hits == { k \in 1..Len(md) :
                  /\ md[k].action = MountActionMount
                  /\ md[k].newFs # Nil
                  /\ GetSource(h[md[k].newFs]) = source }
  IN IF hits = {} THEN 0 ELSE CHOOSE k \in hits : \A m \in hits : k <= m

\* getMountEntry without the comparison of the sources.
getMountEntryAnySource(h, md, source, id) ==
  LET hits == { k \in 1..Len(md) :
                  /\ md[k].action = MountActionMount
                  /\ md[k].newFs # Nil
                  /\ GetID(h[md[k].newFs]) = id }
  IN IF hits = {} THEN 0 ELSE CHOOSE k \in hits : \A m \in hits : k <= m

\* The first Mount entry whose newFs has this id and source: the index of the
\* entry in md stands for the pointer to it, 0 for nil.
getMountEntry(h, md, source, id) ==
  LET hits == { k \in 1..Len(md) :
                  /\ md[k].action = MountActionMount
                  /\ md[k].newFs # Nil
                  /\ GetID(h[md[k].newFs]) = id
                  /\ GetSource(h[md[k].newFs]) = source }
  IN IF hits = {} THEN 0 ELSE CHOOSE k \in hits : \A m \in hits : k <= m

\* ------------------------------------------------------------ GenerateDiff
\* Lines 69-96: the nil tables become empty ones, the sizes are read and the
\* branch is taken; a loop that follows starts at its first entry.
GenerateDiffEnter ==
  /\ pc = "start"
  /\ LET o == IF oldTab = NilTab THEN MountTab(<< >>) ELSE oldTab
         n == IF newTab = NilTab THEN MountTab(<< >>) ELSE newTab
         oldTabSize == Size(o)
         newTabSize == Size(n)
     IN /\ oldTab' = o
        /\ newTab' = n
        /\ diffTable' = NewMountTabDiff
        /\ i' = 1
        /\ pc' = IF newTabSize = 0 /\ oldTabSize = 0 THEN "done"
                 ELSE IF oldTabSize = 0 THEN "mountAll"
                 ELSE IF newTabSize = 0 THEN "umountAll"
                 ELSE "pass1"
  /\ UNCHANGED <<heap, argOld, argNew, sourcesList, callerVars>>

\* MountAllStep with the entry passed as oldFs instead of newFs.
MountAllStepSwapped ==
  /\ pc = "mountAll"
  /\ diffTable' = AddDiffEntry(diffTable, newTab.entries[i], Nil, MountActionMount)
  /\ IF i = Len(newTab.entries)
       THEN pc' = "done" /\ i' = 0
       ELSE pc' = pc /\ i' = i + 1
  /\ UNCHANGED <<heap, argOld, argNew, oldTab, newTab, sourcesList, callerVars>>

\* Lines 85-88: one iteration of the loop over the new table, then the return.
MountAllStep ==
  /\ pc = "mountAll"
  /\ diffTable' = AddDiffEntry(diffTable, Nil, newTab.entries[i], MountActionMount)
  /\ IF i = Len(newTab.entries)
       THEN pc' = "done" /\ i' = 0
       ELSE pc' = pc /\ i' = i + 1
  /\ UNCHANGED <<heap, argOld, argNew, oldTab, newTab, sourcesList, callerVars>>

\* Lines 92-95: one iteration of the loop over the old table, then the return.
UmountAllStep ==
  /\ pc = "umountAll"
  /\ diffTable' = AddDiffEntry(diffTable, oldTab.entries[i], Nil, MountActionUmount)
  /\ IF i = Len(oldTab.entries)
       THEN pc' = "done" /\ i' = 0
       ELSE pc' = pc /\ i' = i + 1
  /\ UNCHANGED <<heap, argOld, argNew, oldTab, newTab, sourcesList, callerVars>>

\* Pass1Body that also takes a changed ID for a remount.
Pass1BodyComparesID(h, md, old, newFs) ==
  LET oldFs == Find(h, old, << SourceFilter(GetSource(h[newFs])),
                               TargetFilter(GetTarget(h[newFs])) >>)
  IN IF oldFs = Nil
       THEN AddDiffEntry(md, Nil, newFs, MountActionMount)
     ELSE IF \/ GetVFSOptions(h[oldFs]) # GetVFSOptions(h[newFs])
             \/ GetFSOptions(h[oldFs]) # GetFSOptions(h[newFs])
             \/ GetID(h[oldFs]) # GetID(h[newFs])
       THEN AddDiffEntry(md, oldFs, newFs, MountActionRemount)
     ELSE md

\* Pass1Body that compares VFSOptions only.
Pass1BodyVFSOnly(h, md, old, newFs) ==
  LET oldFs == Find(h, old, << SourceFilter(GetSource(h[newFs])),
                               TargetFilter(GetTarget(h[newFs])) >>)
  IN IF oldFs = Nil
       THEN AddDiffEntry(md, Nil, newFs, MountActionMount)
     ELSE IF GetVFSOptions(h[oldFs]) # GetVFSOptions(h[newFs])
       THEN AddDiffEntry(md, oldFs, newFs, MountActionRemount)
     ELSE md

\* Lines 100-106: the body of the first loop for the new entry newFs.
Pass1Body(h, md, old, newFs) ==
  LET oldFs == Find(h, old, << SourceFilter(GetSource(h[newFs])),
                               TargetFilter(GetTarget(h[newFs])) >>)
  IN IF oldFs = Nil
       THEN AddDiffEntry(md, Nil, newFs, MountActionMount)
     ELSE IF \/ GetVFSOptions(h[oldFs]) # GetVFSOptions(h[newFs])
             \/ GetFSOptions(h[oldFs]) # GetFSOptions(h[newFs])
       THEN AddDiffEntry(md, oldFs, newFs, MountActionRemount)
     ELSE md

\* Lines 99-107: one iteration of the first loop; after the last one the
\* second loop starts.
Pass1Step ==
  /\ pc = "pass1"
  /\ diffTable' = Pass1Body(heap, diffTable, oldTab, newTab.entries[i])
  /\ IF i = Len(newTab.entries)
       THEN pc' = "pass2" /\ i' = 1
       ELSE pc' = pc /\ i' = i + 1
  /\ UNCHANGED <<heap, argOld, argNew, oldTab, newTab, sourcesList, callerVars>>

\* Pass2Body that appends a Move entry instead of changing the Mount entry.
Pass2BodyAppendsMove(h, md, new, oldFs) ==
  LET newFs == Find(h, new, << SourceFilter(GetSource(h[oldFs])),
                               TargetFilter(GetTarget(h[oldFs])) >>)
  IN IF newFs = Nil
       THEN LET de == getMountEntry(h, md, GetSource(h[oldFs]), GetID(h[oldFs]))
            IN IF de = 0
                 THEN AddDiffEntry(md, oldFs, Nil, MountActionUmount)
                 ELSE AddDiffEntry(md, oldFs, md[de].newFs, MountActionMove)
     ELSE md

\* Pass2Body that changes the action of the Mount entry and not its oldFs.
Pass2BodyActionOnly(h, md, new, oldFs) ==
  LET newFs == Find(h, new, << SourceFilter(GetSource(h[oldFs])),
                               TargetFilter(GetTarget(h[oldFs])) >>)
  IN IF newFs = Nil
       THEN LET de == getMountEntry(h, md, GetSource(h[oldFs]), GetID(h[oldFs]))
            IN IF de = 0
                 THEN AddDiffEntry(md, oldFs, Nil, MountActionUmount)
                 ELSE [md EXCEPT ![de].action = MountActionMove]
     ELSE md

\* Lines 111-122: the body of the second loop for the old entry oldFs.
Pass2Body(h, md, new, oldFs) ==
  LET newFs == Find(h, new, << SourceFilter(GetSource(h[oldFs])),
                               TargetFilter(GetTarget(h[oldFs])) >>)
  IN IF newFs = Nil
       THEN LET de == getMountEntry(h, md, GetSource(h[oldFs]), GetID(h[oldFs]))
            IN IF de = 0
                 THEN AddDiffEntry(md, oldFs, Nil, MountActionUmount)
                 ELSE [md EXCEPT ![de].oldFs = oldFs,
                                 ![de].action = MountActionMove]
     ELSE md

\* Lines 110-125: one iteration of the second loop; after the last one
\* GenerateDiff returns diffTable.
Pass2Step ==
  /\ pc = "pass2"
  /\ diffTable' = Pass2Body(heap, diffTable, newTab, oldTab.entries[i])
  /\ IF i = Len(oldTab.entries)
       THEN pc' = "done" /\ i' = 0
       ELSE pc' = pc /\ i' = i + 1
  /\ UNCHANGED <<heap, argOld, argNew, oldTab, newTab, sourcesList, callerVars>>

\* -------------------------------------------------------------- ListSources
\* Byte-wise lexicographic order of two strings, as Go compares them.
RECURSIVE StrLess(_, _)
StrLess(a, b) ==
  IF b = << >> THEN FALSE
  ELSE IF a = << >> THEN TRUE
  ELSE IF a[1] < b[1] THEN TRUE
  ELSE IF a[1] > b[1] THEN FALSE
  ELSE StrLess(Tail(a), Tail(b))

\* Insert x into the sorted sequence s, before the first larger element.
RECURSIVE Insert(_, _)
Insert(x, s) ==
  IF s = << >> THEN << x >>
  ELSE IF StrLess(x, s[1]) THEN << x >> \o s
  ELSE << s[1] >> \o Insert(x, Tail(s))

\* sort.Strings: the sequence in ascending order.
RECURSIVE SortStrings(_)
SortStrings(s) ==
  IF s = << >> THEN << >> ELSE Insert(s[1], SortStrings(Tail(s)))

\* Lines 160-164: the source one diff entry contributes.
DiffSource(h, diff) ==
  IF diff.action = MountActionUmount THEN GetSource(h[diff.oldFs])
  ELSE GetSource(h[diff.newFs])

\* Lines 159-168: the keys of the map after the loop.
UniqueSources(h, md) == { DiffSource(h, md[k]) : k \in 1..Len(md) }

\* Lines 170-172: the orders in which ranging over the map can visit its keys.
MapOrders(S) ==
  { s \in [1..Cardinality(S) -> S] : \A a, b \in 1..Cardinality(S) :
                                        a # b => s[a] # s[b] }

\* ListSources without the call of sort.Strings.
ListSourcesUnsorted(h, md, order) == order

\* Lines 154-176, for one order of the map: the sorted slice.
ListSources(h, md, order) == SortStrings(order)

\* The caller asks the returned diff list for its sources.
CallListSources ==
  /\ pc = "done"
  /\ \E order \in MapOrders(UniqueSources(heap, diffTable)) :
       sourcesList' = ListSources(heap, diffTable, order)
  /\ pc' = "listed"
  /\ UNCHANGED <<heap, argOld, argNew, oldTab, newTab, diffTable, i, callerVars>>

\* ------------------------------------------------------- GetOldFs, GetNewFs
\* The addresses of the caller's table entries.
TabEntries(tab) == IF tab = NilTab THEN {} ELSE { tab.entries[k] : k \in 1..Len(tab.entries) }
TabAddrs == TabEntries(argOld) \cup TabEntries(argNew)

\* `fs := *p; return &fs`: a new heap cell that holds a copy of cell p.
NewAddr(h) == IF DOMAIN h = {} THEN 1
              ELSE 1 + CHOOSE a \in DOMAIN h : \A b \in DOMAIN h : b <= a
CopyOf(h, p) ==
  LET a == NewAddr(h)
  IN [ptr |-> a,
      heap |-> [b \in DOMAIN h \cup {a} |-> IF b = a THEN h[p] ELSE h[b]]]

\* GetOldFs that returns the stored pointer itself.
GetOldFsNoCopy(h, mde) == [ptr |-> mde.oldFs, heap |-> h]

\* Lines 134-140: the pointer returned and the heap after the call.
GetOldFs(h, mde) ==
  IF mde.oldFs = Nil THEN [ptr |-> Nil, heap |-> h] ELSE CopyOf(h, mde.oldFs)

\* Lines 144-150.
GetNewFs(h, mde) ==
  IF mde.newFs = Nil THEN [ptr |-> Nil, heap |-> h] ELSE CopyOf(h, mde.newFs)

\* The caller calls GetOldFs on entry k of the returned diff list; the pointer
\* an earlier call returned is dropped, and its cell with it.
CallGetOldFs ==
  /\ pc = "done"
  /\ \E k \in 1..Len(diffTable) :
       LET r == GetOldFs([a \in TabAddrs |-> heap[a]], diffTable[k])
       IN /\ ret' = r.ptr
          /\ heap' = r.heap
          /\ called' = << "GetOldFs", k >>
  /\ UNCHANGED <<argOld, argNew, oldTab, newTab, diffTable, pc, i,
                 sourcesList, wrote, muts>>

CallGetNewFs ==
  /\ pc = "done"
  /\ \E k \in 1..Len(diffTable) :
       LET r == GetNewFs([a \in TabAddrs |-> heap[a]], diffTable[k])
       IN /\ ret' = r.ptr
          /\ heap' = r.heap
          /\ called' = << "GetNewFs", k >>
  /\ UNCHANGED <<argOld, argNew, oldTab, newTab, diffTable, pc, i,
                 sourcesList, wrote, muts>>

\* The caller overwrites the Filesystem an accessor returned.
MutateReturned ==
  /\ pc = "done"
  /\ ret # Nil
  /\ muts < MaxMutations
  /\ \E v \in CallerFilesystems \ { heap[ret] } :
       heap' = [heap EXCEPT ![ret] = v]
  /\ wrote' = "returned"
  /\ muts' = muts + 1
  /\ UNCHANGED <<argOld, argNew, oldTab, newTab, diffTable, pc, i,
                 sourcesList, ret, called>>

\* The caller overwrites an entry of one of the tables it passed.
MutateTabEntry ==
  /\ pc = "done"
  /\ muts < MaxMutations
  /\ \E a \in TabAddrs :
       \E v \in CallerFilesystems \ { heap[a] } :
         heap' = [heap EXCEPT ![a] = v]
  /\ wrote' = "table"
  /\ muts' = muts + 1
  /\ UNCHANGED <<argOld, argNew, oldTab, newTab, diffTable, pc, i,
                 sourcesList, ret, called>>

\* ----------------------------------------------------------- initial states
\* The sequences over S of length at most n.
SeqsUpTo(S, n) == UNION { [1..k -> S] : k \in 0..n }

\* The caller's tables: the old entries at addresses 1..Len(ovals), the new
\* ones after them; a table without entries is nil or empty.
InitWith(ovals, nvals, oldNil, newNil) ==
  /\ heap = [a \in 1..(Len(ovals) + Len(nvals)) |->
               IF a <= Len(ovals) THEN ovals[a] ELSE nvals[a - Len(ovals)]]
  /\ argOld = IF oldNil THEN NilTab
              ELSE MountTab([k \in 1..Len(ovals) |-> k])
  /\ argNew = IF newNil THEN NilTab
              ELSE MountTab([k \in 1..Len(nvals) |-> Len(ovals) + k])
  /\ oldTab = argOld
  /\ newTab = argNew
  /\ diffTable = << >>
  /\ pc = "start"
  /\ i = 0
  /\ sourcesList = << >>
  /\ ret = Nil
  /\ called = << "none", 0 >>
  /\ wrote = "none"
  /\ muts = 0

Init ==
  \E ovals, nvals \in SeqsUpTo(Filesystems, MaxTabLen) :
    \E oldNil \in { b \in BOOLEAN : b => ovals = << >> } :
      \E newNil \in { b \in BOOLEAN : b => nvals = << >> } :
        InitWith(ovals, nvals, oldNil, newNil)

Next ==
  \/ GenerateDiffEnter
  \/ MountAllStep
  \/ UmountAllStep
  \/ Pass1Step
  \/ Pass2Step
  \/ CallListSources

Spec == Init /\ [][Next]_vars

\* The runs in which the caller goes on to read and write after the return.
InitCaller ==
  \E ovals, nvals \in SeqsUpTo(CallerFilesystems, MaxCallerTabLen) :
    \E oldNil \in { b \in BOOLEAN : b => ovals = << >> } :
      \E newNil \in { b \in BOOLEAN : b => nvals = << >> } :
        InitWith(ovals, nvals, oldNil, newNil)

NextCaller ==
  \/ GenerateDiffEnter
  \/ MountAllStep
  \/ UmountAllStep
  \/ Pass1Step
  \/ Pass2Step
  \/ CallListSources
  \/ CallGetOldFs
  \/ CallGetNewFs
  \/ MutateReturned
  \/ MutateTabEntry

SpecCaller == InitCaller /\ [][NextCaller]_vars

\* ===================================================================== claims
\* GenerateDiff has returned diffTable.
Returned == pc \in { "done", "listed" }

OldEntries == { oldTab.entries[k] : k \in 1..Len(oldTab.entries) }
NewEntries == { newTab.entries[k] : k \in 1..Len(newTab.entries) }
DiffIdx == 1..Len(diffTable)

SamePair(a, b) ==
  heap[a].source = heap[b].source /\ heap[a].target = heap[b].target
SameOptions(a, b) ==
  heap[a].vfsOptions = heap[b].vfsOptions /\ heap[a].fsOptions = heap[b].fsOptions
\* Some entry among es has the source and the target of entry a.
PairIn(es, a) == \E b \in es : SamePair(a, b)
UniqueIDs(es) == \A a, b \in es : a # b => heap[a].id # heap[b].id
UniquePairs(es) == \A a, b \in es : a # b => ~SamePair(a, b)
\* The diff entries that refer to entry a.
RefersTo(a) == { k \in DiffIdx : diffTable[k].oldFs = a \/ diffTable[k].newFs = a }

\* ------------------------------------------------------------------------ C1
MovedPair(o, n) ==
  /\ ~PairIn(NewEntries, o)
  /\ ~PairIn(OldEntries, n)
  /\ heap[n].id = heap[o].id
  /\ heap[n].source = heap[o].source
C1Tables ==
  /\ Returned
  /\ UniqueIDs(OldEntries) /\ UniqueIDs(NewEntries)
  /\ UniquePairs(OldEntries) /\ UniquePairs(NewEntries)

\* C1: in tables with unique IDs and unique (Source, Target) pairs, an old entry
\* o and a new entry n that both lost their pair and share ID and Source are
\* reported by exactly one diff entry, Move(oldFs = o, newFs = n); no other
\* entry (no Mount for n, no Umount for o) refers to either.
C1_MoveDetection ==
  C1Tables =>
    \A o \in OldEntries : \A n \in NewEntries :
      MovedPair(o, n) =>
        /\ Cardinality(RefersTo(o) \cup RefersTo(n)) = 1
        /\ \A k \in RefersTo(o) \cup RefersTo(n) :
             diffTable[k] = [oldFs |-> o, newFs |-> n, action |-> MountActionMove]

\* A move was detected next to another change of the tables.
C1_Witness ==
  /\ C1Tables
  /\ \E o \in OldEntries : \E n \in NewEntries : MovedPair(o, n)
  /\ Len(diffTable) >= 2

\* ------------------------------------------------------------------------ C2
Vanished(o) ==
  /\ ~PairIn(NewEntries, o)
  /\ \A n \in NewEntries : heap[n].id # heap[o].id

\* C2: an old entry whose (Source, Target) pair is gone from the new table and
\* whose ID no new entry carries is the oldFs of exactly one diff entry, an
\* Umount with newFs absent; it is never the oldFs of a Move.
C2_UmountNotMove ==
  Returned =>
    \A o \in OldEntries :
      Vanished(o) =>
        /\ Cardinality({ k \in DiffIdx : diffTable[k].oldFs = o }) = 1
        /\ \A k \in DiffIdx :
             diffTable[k].oldFs = o =>
               /\ diffTable[k].action = MountActionUmount
               /\ diffTable[k].newFs = Nil

\* An entry vanished while a new mount of the same source, with another ID,
\* appeared: the case a match on the source alone would call a move.
C2_Witness ==
  /\ Returned
  /\ \E o \in OldEntries :
       /\ Vanished(o)
       /\ \E k \in DiffIdx :
            /\ diffTable[k].action = MountActionMount
            /\ heap[diffTable[k].newFs].source = heap[o].source

\* ------------------------------------------------------------------------ C3
\* The two tables hold the same sequence of (Source, Target, VFSOptions,
\* FSOptions) values.
SameValues ==
  /\ Len(oldTab.entries) = Len(newTab.entries)
  /\ \A k \in 1..Len(oldTab.entries) :
       /\ SamePair(oldTab.entries[k], newTab.entries[k])
       /\ SameOptions(oldTab.entries[k], newTab.entries[k])

\* C3 as stated: structurally identical tables always give an empty diff list.
C3_Original == (Returned /\ SameValues) => diffTable = << >>

\* Entries of the old table that share (Source, Target) share their options.
PairsAgreeOnOptions ==
  \A a, b \in OldEntries : SamePair(a, b) => SameOptions(a, b)

\* C3, amended: structurally identical tables give an empty diff list provided
\* entries of the table that share (Source, Target) also share VFSOptions and
\* FSOptions (as when each pair occurs at most once).
C3_IdenticalTablesEmptyDiff ==
  (Returned /\ SameValues /\ PairsAgreeOnOptions) => diffTable = << >>

\* Two structurally identical tables of two entries whose IDs differ.
C3_Witness ==
  /\ Returned /\ SameValues /\ PairsAgreeOnOptions
  /\ Len(oldTab.entries) = 2
  /\ \E k \in 1..2 : heap[oldTab.entries[k]].id # heap[newTab.entries[k]].id
  /\ diffTable = << >>

\* ------------------------------------------------------------------------ C4
NoEntries(tab) == tab = NilTab \/ Len(tab.entries) = 0

\* C4: with nil standing for a table without entries: two empty tables give
\* an empty list; an empty old table gives one Mount(absent, n) per new entry
\* n in the new table's order; an empty new table gives one Umount(o, absent)
\* per old entry o in the old table's order.
C4_DegenerateInputs ==
  Returned =>
    /\ (NoEntries(argOld) /\ NoEntries(argNew)) => diffTable = << >>
    /\ (NoEntries(argOld) /\ ~NoEntries(argNew)) =>
         diffTable = [k \in 1..Len(argNew.entries) |->
                        [oldFs |-> Nil, newFs |-> argNew.entries[k],
                         action |-> MountActionMount]]
    /\ (~NoEntries(argOld) /\ NoEntries(argNew)) =>
         diffTable = [k \in 1..Len(argOld.entries) |->
                        [oldFs |-> argOld.entries[k], newFs |-> Nil,
                         action |-> MountActionUmount]]

\* A nil old table and a new table of two different entries.
C4_Witness ==
  /\ Returned
  /\ argOld = NilTab
  /\ ~NoEntries(argNew)
  /\ Len(argNew.entries) = 2
  /\ heap[argNew.entries[1]] # heap[argNew.entries[2]]
  /\ Len(diffTable) = 2

\* ------------------------------------------------------------------------ C5
C5Tables ==
  /\ Returned
  /\ ~NoEntries(argOld) /\ ~NoEntries(argNew)
  /\ UniquePairs(OldEntries) /\ UniquePairs(NewEntries)

\* C5: in non-empty tables with unique (Source, Target) pairs, a new entry n
\* has a Remount entry iff an old entry o has its pair and other options; then
\* Remount(o, n) is the only diff entry for n, and when the options are equal
\* no diff entry refers to n or o.
C5_RemountDetection ==
  C5Tables =>
    \A n \in NewEntries :
      /\ (\E k \in DiffIdx : /\ diffTable[k].action = MountActionRemount
                             /\ diffTable[k].newFs = n)
           <=> (\E o \in OldEntries : SamePair(o, n) /\ ~SameOptions(o, n))
      /\ \A o \in OldEntries :
           SamePair(o, n) =>
             IF SameOptions(o, n)
               THEN RefersTo(n) = {} /\ RefersTo(o) = {}
               ELSE /\ Cardinality({ k \in DiffIdx : diffTable[k].newFs = n }) = 1
                    /\ \A k \in DiffIdx :
                         diffTable[k].newFs = n =>
                           diffTable[k] = [oldFs |-> o, newFs |-> n,
                                           action |-> MountActionRemount]

\* A remount in which only FSOptions changed, next to an unchanged mount.
C5_Witness ==
  /\ C5Tables
  /\ \E k \in DiffIdx :
       /\ diffTable[k].action = MountActionRemount
       /\ heap[diffTable[k].oldFs].vfsOptions = heap[diffTable[k].newFs].vfsOptions
       /\ heap[diffTable[k].oldFs].fsOptions # heap[diffTable[k].newFs].fsOptions
  /\ \E o \in OldEntries : \E n \in NewEntries : SamePair(o, n) /\ SameOptions(o, n)

\* ------------------------------------------------------------------------ C6
WellFormed(e) ==
  /\ e.action = MountActionMount => (e.oldFs = Nil /\ e.newFs # Nil)
  /\ e.action = MountActionUmount => (e.oldFs # Nil /\ e.newFs = Nil)
  /\ e.action \in { MountActionMove, MountActionRemount } =>
       (e.oldFs # Nil /\ e.newFs # Nil)

\* C6: at every step of GenerateDiff and after it, each diff entry has the
\* shape of its action: Mount has only newFs, Umount has only oldFs, Move and
\* Remount have both.
C6_EntryShape == \A k \in DiffIdx : WellFormed(diffTable[k])

\* The second loop is still running after it has turned a Mount into a Move.
C6_Witness ==
  /\ pc = "pass2"
  /\ \E k \in DiffIdx : diffTable[k].action = MountActionMove

\* ------------------------------------------------------------------------ C7
ExpectedSources ==
  { heap[diffTable[k].oldFs].source :
      k \in { j \in DiffIdx : diffTable[j].action = MountActionUmount } }
  \cup
  { heap[diffTable[k].newFs].source :
      k \in { j \in DiffIdx : diffTable[j].action # MountActionUmount } }

\* C7: what ListSources returned is strictly ascending in lexicographic order
\* (sorted, no duplicates) and holds exactly the oldFs.Source of the Umount
\* entries and the newFs.Source of the others.
C7_ListSources ==
  pc = "listed" =>
    /\ \A a, b \in 1..Len(sourcesList) :
         a < b => StrLess(sourcesList[a], sourcesList[b])
    /\ { sourcesList[a] : a \in 1..Len(sourcesList) } = ExpectedSources

\* Four diff entries, two of them with the same source: three sources listed.
C7_Witness ==
  /\ pc = "listed"
  /\ Len(diffTable) = 4
  /\ Len(sourcesList) = 3

\* ------------------------------------------------------------------------ C8
\* What the accessors report for the diff list: per entry the action and the
\* values of oldFs and newFs (<< >> when absent), and the sources.
Reported(h, p) == IF p = Nil THEN << >> ELSE << h[p] >>
DiffView ==
  [ entries |-> [k \in DiffIdx |->
                   [action |-> diffTable[k].action,
                    old |-> Reported(heap, diffTable[k].oldFs),
                    new |-> Reported(heap, diffTable[k].newFs)]],
    sources |-> UniqueSources(heap, diffTable) ]

\* C8: a write of the caller to an entry of the tables it passed, made after
\* GenerateDiff returned, leaves what the diff list reports unchanged.
C8_SelfContained ==
  [][(pc = "done" /\ wrote' = "table" /\ muts' = muts + 1) => DiffView' = DiffView]_vars

\* ------------------------------------------------------------------------ C9
\* The pointer the accessor call recorded in c was asked to copy.
StoredFor(c) ==
  IF c[1] = "GetOldFs" THEN diffTable[c[2]].oldFs ELSE diffTable[c[2]].newFs

C9Step ==
  /\ (pc = "done" /\ pc' = "done" /\ muts' = muts) =>
       IF StoredFor(called') = Nil
         THEN ret' = Nil
         ELSE ret' # Nil /\ heap'[ret'] = heap[StoredFor(called')]
  /\ (pc = "done" /\ wrote' = "returned" /\ muts' = muts + 1) =>
       \A k \in DiffIdx :
         /\ Reported(heap', diffTable[k].oldFs) = Reported(heap, diffTable[k].oldFs)
         /\ Reported(heap', diffTable[k].newFs) = Reported(heap, diffTable[k].newFs)

\* C9: GetOldFs and GetNewFs return nil for an absent entry and otherwise a
\* pointer to the stored entry's field values, and a caller's write through a
\* returned pointer changes the value of no entry the diff list stores, so a
\* later call returns the same field values as before the write.
C9_AccessorsCopy == [][C9Step]_vars

\* The caller has changed the copy GetOldFs returned: it now differs from the
\* stored entry.
C9_Witness ==
  /\ pc = "done"
  /\ wrote = "returned"
  /\ called[1] = "GetOldFs"
  /\ ret # Nil
  /\ heap[ret] # heap[diffTable[called[2]].oldFs]

\* ----------------------------------------------------------------------- C10
\* C10: the oldFs and newFs of a Move entry have the same ID, the same Source
\* and different Targets; oldFs is an old entry whose pair is absent from the
\* new table, newFs a new entry whose pair is absent from the old table.
C10_MoveEntries ==
  Returned =>
    \A k \in DiffIdx :
      diffTable[k].action = MountActionMove =>
        LET o == diffTable[k].oldFs
            n == diffTable[k].newFs
        IN /\ heap[o].id = heap[n].id
           /\ heap[o].source = heap[n].source
           /\ heap[o].target # heap[n].target
           /\ o \in OldEntries /\ ~PairIn(NewEntries, o)
           /\ n \in NewEntries /\ ~PairIn(OldEntries, n)

\* A Move entry, next to the Umount of an old entry with the same ID and
\* Source that found the Mount entry already taken.
C10_Witness ==
  /\ Returned
  /\ \E k, j \in DiffIdx :
       /\ diffTable[k].action = MountActionMove
       /\ diffTable[j].action = MountActionUmount
       /\ heap[diffTable[j].oldFs].id = heap[diffTable[k].oldFs].id
       /\ heap[diffTable[j].oldFs].source = heap[diffTable[k].oldFs].source

====
